---------------------------- MODULE Spec2Model ----------------------------
(***************************************************************************)
(* The file download engine of automas/mcp/servers/download/server.py:     *)
(* the Name Resolver (_sanitize_filename, _extract_filename_from_url,      *)
(* _get_unique_filepath), the Streaming Fetcher                            *)
(* (_download_single_file_internal) and the two tools download_single_file *)
(* and download_files (asyncio.gather over one fetch per URL).             *)
(*                                                                         *)
(* Strings are sequences of one-character strings.  Byte counts are kept   *)
(* in a scaled unit: one "MB" is BytesPerMB units and a chunk holds        *)
(* chunk_size units, the last chunk of a body what is left.                *)
(***************************************************************************)
EXTENDS Integers, Sequences, FiniteSets, TLC

(***************************************************************************)
(* Bounds of the model.                                                    *)
(***************************************************************************)
\* fetches (tasks) started over one run, summed over the calls
MaxFetches == 2
\* URLs of one download_files call: batches of up to two URLs are modelled
MaxBatch == IF MaxFetches < 2 THEN MaxFetches ELSE 2
\* largest max_size_mb a caller passes (1 .. MaxSizeMb)
MaxSizeMb == 1
\* scaled stand-in for 1024 * 1024 (server.py:135)
BytesPerMB == 2
\* scaled stand-in for chunk_size=8192 (server.py:171)
chunk_size == 1

\* longest of the short strings given to the Name Resolver on its own
MaxInputLen == 3

\* server.py:62,64: the longest name _sanitize_filename lets through
MaxNameLen == 255

(***************************************************************************)
(* Strings.                                                                *)
(***************************************************************************)
downloaded_file == <<"d","o","w","n","l","o","a","d","e","d","_","f","i","l","e">>
DotBin == <<".","b","i","n">>
Http == <<"h","t","t","p",":","/","/">>
Https == <<"h","t","t","p","s",":","/","/">>

\* str.startswith(prefix)
startswith(s, prefix) ==
    /\ Len(s) >= Len(prefix)
    /\ SubSeq(s, 1, Len(prefix)) = prefix

\* the positions of s that hold one of the characters cs
Positions(s, cs) == {i \in 1..Len(s) : s[i] \in cs}

Min(S) == CHOOSE x \in S : \A y \in S : x <= y
Max(S) == CHOOSE x \in S : \A y \in S : x >= y

\* str.find / str.rfind of a single character; 0 stands for Python's -1
find(s, c) == IF Positions(s, {c}) = {} THEN 0 ELSE Min(Positions(s, {c}))
rfind(s, c) == IF Positions(s, {c}) = {} THEN 0 ELSE Max(Positions(s, {c}))

\* s up to (not including) the first character of cs, and s after it
Before(s, cs) ==
    IF Positions(s, cs) = {} THEN s ELSE SubSeq(s, 1, Min(Positions(s, cs)) - 1)
After(s, cs) ==
    IF Positions(s, cs) = {} THEN <<>>
    ELSE SubSeq(s, Min(Positions(s, cs)) + 1, Len(s))

\* the decimal digits of a counter, str(counter)
Digit(d) == <<"0","1","2","3","4","5","6","7","8","9">>[d + 1]
RECURSIVE str(_)
str(n) == IF n < 10 THEN <<Digit(n)>> ELSE str(n \div 10) \o <<Digit(n % 10)>>

(***************************************************************************)
(* _sanitize_filename (server.py:55-67).                                   *)
(***************************************************************************)
\* the character class  [<>:"/\\|?*\x00-\x1f]  ("\t" stands for the controls)
IllegalChars == {"<", ">", ":", "\"", "/", "\\", "|", "?", "*", "\t"}

\* re.sub(r'[<>:"/\\|?*\x00-\x1f]', "_", filename)
KeepChars(s) == s
ReplaceIllegal(s) == [i \in 1..Len(s) |-> IF s[i] \in IllegalChars THEN "_" ELSE s[i]]

\* str.strip(". ")
StripChars == {".", " "}
NoStrip(s) == s
strip(s) ==
    LET keep == {i \in 1..Len(s) : s[i] \notin StripChars}
    IN  IF keep = {} THEN <<>> ELSE SubSeq(s, Min(keep), Max(keep))

\* pathlib: PurePath.suffix and PurePath.stem of a bare name
suffix(name) ==
    LET i == rfind(name, ".")
    IN  IF 0 < (i - 1) /\ i < Len(name) THEN SubSeq(name, i, Len(name)) ELSE <<>>
stem(name) ==
    LET i == rfind(name, ".")
    IN  IF 0 < (i - 1) /\ i < Len(name) THEN SubSeq(name, 1, i - 1) ELSE name

\* name[:max_name_len], Python slice semantics for a negative bound included
SliceTo(s, n) ==
    IF n >= 0 THEN SubSeq(s, 1, IF n < Len(s) THEN n ELSE Len(s))
    ELSE SubSeq(s, 1, IF Len(s) + n > 0 THEN Len(s) + n ELSE 0)

_sanitize_filename(fname) ==
    LET replaced == strip(ReplaceIllegal(fname))
        sanitized == IF replaced = <<>> THEN downloaded_file ELSE replaced
    IN  IF Len(sanitized) > MaxNameLen
        THEN SliceTo(stem(sanitized), MaxNameLen - Len(suffix(sanitized)))
                 \o suffix(sanitized)
        ELSE sanitized

(***************************************************************************)
(* _extract_filename_from_url (server.py:70-93).                           *)
(***************************************************************************)
\* urllib.parse.urlparse(url) for a URL with an http(s) scheme: what follows
\* the scheme, cut into netloc, path, params, query and fragment
AfterScheme(url) ==
    IF startswith(url, Https) THEN SubSeq(url, Len(Https) + 1, Len(url))
    ELSE IF startswith(url, Http) THEN SubSeq(url, Len(Http) + 1, Len(url))
    ELSE url
UrlNoFragment(url) == Before(AfterScheme(url), {"#"})
UrlQuery(url) == After(UrlNoFragment(url), {"?"})
UrlPathAndParams(url) ==
    LET noq == Before(UrlNoFragment(url), {"?"})
        slash == find(noq, "/")
    IN  IF slash = 0 THEN <<>> ELSE SubSeq(noq, slash, Len(noq))
\* urlparse's _splitparams: a ';' in the last segment ends the path
UrlPath(url) ==
    LET p == UrlPathAndParams(url)
        last == rfind(p, "/")
        semis == {i \in Positions(p, {";"}) : i > last}
    IN  IF semis = {} THEN p ELSE SubSeq(p, 1, Min(semis) - 1)

\* Path(path).name: the last component, empty and "." components dropped
RECURSIVE PathParts(_)
PathParts(p) ==
    IF p = <<>> THEN <<>>
    ELSE LET head == Before(p, {"/"})
             rest == PathParts(After(p, {"/"}))
         IN  IF head = <<>> \/ head = <<".">> THEN rest ELSE <<head>> \o rest
PathName(p) ==
    LET parts == PathParts(p) IN IF parts = <<>> THEN <<>> ELSE parts[Len(parts)]

\* urllib.parse.unquote: %XX escapes decoded (the escapes the model's URLs use)
HexDecode(a, b) ==
    CASE <<a, b>> = <<"2", "0">> -> <<" ">>
      [] <<a, b>> = <<"2", "F">> -> <<"/">>
      [] <<a, b>> = <<"2", "E">> -> <<".">>
      [] OTHER -> <<"%", a, b>>
RECURSIVE unquote(_)
unquote(s) ==
    IF s = <<>> THEN <<>>
    ELSE IF s[1] = "%" /\ Len(s) >= 3
         THEN HexDecode(s[2], s[3]) \o unquote(SubSeq(s, 4, Len(s)))
         ELSE <<s[1]>> \o unquote(Tail(s))

\* urllib.parse.parse_qs: the name=value pairs in order, blank values dropped,
\* '+' read as a space and escapes decoded
PlusToSpace(s) == [i \in 1..Len(s) |-> IF s[i] = "+" THEN " " ELSE s[i]]
RECURSIVE parse_qs(_)
parse_qs(q) ==
    IF q = <<>> THEN <<>>
    ELSE LET field == Before(q, {"&"})
             rest == parse_qs(After(q, {"&"}))
             key == unquote(PlusToSpace(Before(field, {"="})))
             val == unquote(PlusToSpace(After(field, {"="})))
         IN  IF field = <<>> \/ val = <<>> THEN rest
             ELSE <<[key |-> key, val |-> val]>> \o rest

\* query_params[key][0]: the first value given for the key, <<>> when absent
QueryValue(pairs, key) ==
    LET at == {i \in 1..Len(pairs) : pairs[i].key = key}
    IN  IF at = {} THEN <<>> ELSE pairs[Min(at)].val

\* for key in ["file", "filename", "name"]: the first key present
QueryKeys == << <<"f","i","l","e">>, <<"f","i","l","e","n","a","m","e">>, <<"n","a","m","e">> >>
LastKeyFirst(url) ==
    LET pairs == parse_qs(UrlQuery(url))
        present == {k \in 1..Len(QueryKeys) : QueryValue(pairs, QueryKeys[k]) # <<>>}
    IN  IF present = {} THEN <<>> ELSE QueryValue(pairs, QueryKeys[Max(present)])
QueryFilename(url) ==
    LET pairs == parse_qs(UrlQuery(url))
        present == {k \in 1..Len(QueryKeys) : QueryValue(pairs, QueryKeys[k]) # <<>>}
    IN  IF present = {} THEN <<>> ELSE QueryValue(pairs, QueryKeys[Min(present)])

\* urlparse raises ValueError("Invalid IPv6 URL") when the netloc holds one of
\* the brackets [ ] without the other
UrlNetloc(url) == Before(AfterScheme(url), {"/", "?", "#"})
urlparse_raises(url) ==
    (Positions(UrlNetloc(url), {"["}) = {}) # (Positions(UrlNetloc(url), {"]"}) = {})

\* server.py:84-90: the placeholder for no name, ".bin" for no dot, sanitized
FinishName(found) ==
    LET named == IF found = <<>> THEN downloaded_file ELSE found
        withExt == IF find(named, ".") = 0 THEN named \o DotBin ELSE named
    IN  _sanitize_filename(withExt)

\* server.py:92: except Exception, for the ValueError of urlparse
CatchesNothing(exc) == FALSE
extract_except(exc) == exc \in {"ValueError", "OSError", "HTTPStatusError", "TransportError"}

\* server.py:70-93; the error of urlparse ends in the handler, which returns
\* "downloaded_file.bin"
_extract_filename_from_url(url) ==
    IF urlparse_raises(url) /\ extract_except("ValueError") THEN downloaded_file \o DotBin
    ELSE LET fromPath == unquote(PathName(UrlPath(url)))
             fromQuery == IF fromPath = <<>> THEN QueryFilename(url) ELSE fromPath
         IN  FinishName(fromQuery)


(***************************************************************************)
(* _get_unique_filepath (server.py:96-109).  A path is the string of the   *)
(* destination directory, "/", and the name.                               *)
(***************************************************************************)
\* the directory every call of the run downloads into (output_dir)
output_dir == <<"/", "t">>
\* output_path / filename
JoinPath(dir, name) == dir \o <<"/">> \o name
\* Path.name of a path made by JoinPath
BaseName(path) == SubSeq(path, rfind(path, "/") + 1, Len(path))
\* Path.parent of a path made by JoinPath
Parent(path) == SubSeq(path, 1, rfind(path, "/") - 1)

\* parent / f"{stem}_{counter}{suffix}"
Numbered(path, counter) ==
    JoinPath(Parent(path),
             stem(BaseName(path)) \o <<"_">> \o str(counter) \o suffix(BaseName(path)))

\* the while True loop: the first counter, from `counter` on, whose path is free
RECURSIVE FirstFree(_, _, _)
FirstFree(path, counter, existing) ==
    IF Numbered(path, counter) \notin existing THEN Numbered(path, counter)
    ELSE FirstFree(path, counter + 1, existing)

NoCollisionCheck(path, existing) == path
SuffixOneOnly(path, existing) ==
    IF path \notin existing THEN path ELSE Numbered(path, 1)
CountFromTwo(path, existing) ==
    IF path \notin existing THEN path ELSE FirstFree(path, 2, existing)
_get_unique_filepath(path, existing) ==
    IF path \notin existing THEN path ELSE FirstFree(path, 1, existing)

(***************************************************************************)
(* The world outside the program: the URLs callers pass, what the servers  *)
(* hold for them, the names callers supply.                                *)
(***************************************************************************)
UrlA == <<"h","t","t","p",":","/","/","h","/","f",".","b">>
UrlB == <<"h","t","t","p","s",":","/","/","k","/","x","/","f",".","b">>
UrlG == <<"h","t","t","p","s",":","/","/","h","/","g">>
UrlFtp == <<"f","t","p",":","/","/","h","/","f",".","b">>
URLS == {UrlA, UrlB, UrlG, UrlFtp}

\* the body the server sends for a URL, in (scaled) bytes
Body(url) ==
    CASE url = UrlA -> BytesPerMB
      [] url = UrlB -> BytesPerMB + 1
      [] OTHER -> 0

\* the Content-Type header of the body response, <<>> when the server sends none
ContentTypeHeader(url) == IF url = UrlA THEN <<"application/json">> ELSE <<>>

\* filename arguments of download_single_file; <<>> is None (or "")
FILENAMES == {<<>>, <<"a", "/", "b">>}

\* what a Content-Length header of the probe response can hold
\* (no header; a header int() rejects; a number)
ContentLengths ==
    {[present |-> FALSE, numeric |-> FALSE, value |-> 0],
     [present |-> TRUE, numeric |-> FALSE, value |-> 0]}
    \cup [present : {TRUE}, numeric : {TRUE}, value : 0..(MaxSizeMb * BytesPerMB + 1)]

\* httpx transport failures: a connection error, and a timeout (whose str() is "")
TransportErrors == {"All connection attempts failed", ""}


(***************************************************************************)
(* The state.                                                              *)
(***************************************************************************)
VARIABLES
    phase,          \* "idle", "running" (a tool call is in progress), "returned"
    tool,           \* the tool called: "download_single_file" or "download_files"
    urls,           \* the URLs of the call, one fetch (task) each
    max_size_mb,    \* the max_size_mb argument
    dirState,       \* the destination directory: "absent", "present", "blocked"
    files,          \* the files of the file system: path -> [size, ino]
    pc,             \* task -> the fetch's place in _download_single_file_internal
    filename,       \* task -> the local variable filename
    file_path,      \* task -> the local variable file_path (<<>> before line 132)
    downloaded,     \* task -> the local variable downloaded
    fd,             \* task -> the open file f: its inode (-1: not open), bytes buffered
    ret,            \* task -> <<>>, or <<the DownloadResult returned>>
    response,       \* <<>>, or <<what the tool call returned>>
    raised,         \* the tool call ended by raising instead of returning
    fetches,        \* fetches started so far in the run
    obs,            \* task -> what the fetch did and met: requests sent, status received,
                    \* file opened, its own fault, and <<the Content-Length the probe
                    \* reported>> when that was a number above max_size_bytes
    at_start,       \* the directory and the files when the call started
    log,            \* the successful download_single_file calls before this call
    initial_files   \* the paths that existed before the first call

vars == <<phase, tool, urls, max_size_mb, dirState, files, pc, filename, file_path,
          downloaded, fd, ret, response, raised, fetches, obs, at_start, log,
          initial_files>>

Tasks == 1..Len(urls)
Terminal == {"completed", "aborted", "raised"}

\* max_size_bytes = max_size_mb * 1024 * 1024 (server.py:135)
max_size_bytes == max_size_mb * BytesPerMB

(***************************************************************************)
(* DownloadResult (server.py:40-46) and the two places that build one.     *)
(***************************************************************************)
\* server.py:189-196
SuccessResult(path, name, size, ctype) ==
    [file_path |-> path, file_name |-> name, file_size |-> size,
     content_type |-> ctype, success |-> TRUE, error |-> <<>>]
\* server.py:202-209; `filename or ""`
FailureWithPath(name, message) ==
    [file_path |-> <<"/">>, file_name |-> name, file_size |-> 0,
     content_type |-> <<>>, success |-> FALSE, error |-> <<message>>]
FailureResult(name, message) ==
    [file_path |-> <<>>, file_name |-> name, file_size |-> 0,
     content_type |-> <<>>, success |-> FALSE, error |-> <<message>>]

(***************************************************************************)
(* Exceptions.  The classes that the fetch can meet, all of them           *)
(* subclasses of Exception.                                                *)
(***************************************************************************)
ExceptionClasses == {"ValueError", "OSError", "HTTPStatusError", "TransportError"}

\* server.py:198: except Exception as e
OnlyValueError(exc) == exc = "ValueError"
NotTransportError(exc) == exc # "TransportError"
except_Exception(exc) == exc \in ExceptionClasses

\* server.py:161: except httpx.HTTPStatusError: pass (around the probe)
except_HTTPStatusError(exc) == exc = "HTTPStatusError"

\* server.py:119: temp_file = None, never assigned again
temp_file == <<>>

\* server.py:199-200: the handler unlinks temp_file when it is set and exists
HandlerCleanup(fs) ==
    IF temp_file # <<>> /\ temp_file \in DOMAIN fs
    THEN [p \in DOMAIN fs \ {temp_file} |-> fs[p]]
    ELSE fs

\* f when it is not open
Closed == [ino |-> -1, buffered |-> 0]

\* An exception raised at top level in the try block of task i (server.py:120,
\* 198-209): the handler turns it into a failure result, or it leaves the coroutine.
RetryProbe(i, exc, message, newObs, fs) ==
    /\ files' = fs
    /\ pc' = [pc EXCEPT ![i] = "probing"]
    /\ ret' = ret
    /\ obs' = [obs EXCEPT ![i] = [newObs EXCEPT !.probes = @ + 1]]
    /\ fd' = [fd EXCEPT ![i] = Closed]
Raise(i, exc, message, newObs, fs) ==
    /\ files' = IF except_Exception(exc) THEN HandlerCleanup(fs) ELSE fs
    /\ pc' = [pc EXCEPT ![i] = IF except_Exception(exc) THEN "aborted" ELSE "raised"]
    /\ ret' = [ret EXCEPT ![i] = IF except_Exception(exc)
                                 THEN <<FailureResult(filename[i], message)>>
                                 ELSE <<>>]
    /\ obs' = [obs EXCEPT ![i] = newObs]
    /\ fd' = [fd EXCEPT ![i] = Closed]

NoObs == [probes |-> 0, gets |-> 0, status |-> 0, opened |-> FALSE, fault |-> "none",
          over_length |-> <<>>]

(***************************************************************************)
(* Messages of the errors the program raises itself.                       *)
(***************************************************************************)
MsgInvalidUrl == "Invalid URL format. URL must start with http:// or https://"
MsgProbeSize == "File size exceeds maximum allowed size"
MsgStreamSize == "File exceeded size limit during download"
MsgNotCreated == "File was not created"
\* messages of library and operating system errors
MsgBadInt == "invalid literal for int() with base 10"
MsgStatus == "Client error '404 Not Found' for url"
MsgMkdir == "[Errno 13] Permission denied"
MsgOpen == "[Errno 13] Permission denied: file"
MsgWrite == "[Errno 28] No space left on device"


(***************************************************************************)
(* The file system: Path.exists, Path.unlink, open(path, "wb"), f.write,   *)
(* Path.stat().st_size.  A file is an inode with a size; an unlinked inode *)
(* stays writable through the handles already open on it.                  *)
(***************************************************************************)
exists(fs, path) == path \in DOMAIN fs
KeepFile(fs, path) == fs
unlink(fs, path) == [p \in DOMAIN fs \ {path} |-> fs[p]]
st_size(fs, path) == fs[path].size

\* open(file_path, "wb") by task i: an existing file is truncated, a missing one created
OpenWb(fs, path, i) ==
    IF exists(fs, path) THEN [fs EXCEPT ![path].size = 0]
    ELSE [p \in DOMAIN fs \cup {path} |->
             IF p = path THEN [size |-> 0, ino |-> i] ELSE fs[p]]

\* f.write(chunk) of n bytes at offset off through a handle on inode ino
Write(fs, path, ino, off, n) ==
    IF exists(fs, path) /\ fs[path].ino = ino
    THEN [fs EXCEPT ![path].size = IF off + n > @ THEN off + n ELSE @]
    ELSE fs

\* f.close(), or a flush by f.write, of task i: the buffered bytes are written at
\* the offset of the handle, which is what the handle wrote before
Flush(fs, i) ==
    Write(fs, file_path[i], fd[i].ino, downloaded[i] - fd[i].buffered, fd[i].buffered)

\* when no handle is open any more, inodes need no identity
Settled(fs) == [p \in DOMAIN fs |-> [size |-> fs[p].size, ino |-> 0]]

(***************************************************************************)
(* The checks of the fetch.                                                *)
(***************************************************************************)
\* server.py:121
AnyUrl(url) == TRUE
ValidUrl(url) == startswith(url, Http) \/ startswith(url, Https)

\* server.py:156: if size > max_size_bytes
AtLeastMax(size, max) == size >= max
ExceedsTwiceMax(size, max) == size > 2 * max
ExceedsAtProbe(size, max) == size > max

\* server.py:174: if downloaded > max_size_bytes
NeverExceeds(total, max) == FALSE
ExceedsInStream(total, max) == total > max

\* server.py:165: response.raise_for_status() raises for a status that is not 2xx
Statuses == {200, 404}
NeverRaises(status) == FALSE
RaisesFrom500(status) == status >= 500
raise_for_status(status) == status < 200 \/ status > 299

\* server.py:152-156: <<the number in the probe's Content-Length header>> when
\* there is one and it is greater than max, <<>> otherwise
OverLength(content_length, max) ==
    IF content_length.present /\ content_length.numeric /\ content_length.value > max
    THEN <<content_length.value>>
    ELSE <<>>

\* server.py:152-160: what the probe's Content-Length header raises, "none" if nothing
ProbeCheck(content_length, max) ==
    CASE ~content_length.present -> [exc |-> "none", message |-> "", fault |-> "none"]
      [] content_length.present /\ ~content_length.numeric ->
            [exc |-> "ValueError", message |-> MsgBadInt, fault |-> "probe_parse"]
      [] OTHER ->
            IF ExceedsAtProbe(content_length.value, max)
            THEN [exc |-> "ValueError", message |-> MsgProbeSize, fault |-> "probe_size"]
            ELSE [exc |-> "none", message |-> "", fault |-> "none"]

(***************************************************************************)
(* The tools (server.py:212-273).                                          *)
(***************************************************************************)
\* asyncio.gather(*tasks, return_exceptions=False) is done when a task has raised
\* or when every task has returned (server.py:268)
FirstCompleted == \E i \in Tasks : pc[i] \in Terminal
AllCompleted == \A i \in Tasks : pc[i] = "completed"
gather_done ==
    \/ \E i \in Tasks : pc[i] = "raised"
    \/ \A i \in Tasks : pc[i] \in Terminal

\* the results gather hands back: in the order of the tasks (server.py:268)
RECURSIVE Gathered(_)
Gathered(k) == IF k = 0 THEN <<>> ELSE Gathered(k - 1) \o ret[k]
results == Gathered(Len(urls))

\* server.py:270: sum(1 for r in results if r.success)
CountAll(rs) == Len(rs)
success_count(rs) == Cardinality({i \in 1..Len(rs) : rs[i].success})

\* server.py:271-273
EmptyIsFailure(rs) ==
    [results |-> rs, success_count |-> success_count(rs),
     failed_count |-> IF rs = <<>> THEN 1 ELSE Len(rs) - success_count(rs)]
DownloadResponse(rs) ==
    [results |-> rs, success_count |-> success_count(rs),
     failed_count |-> Len(rs) - success_count(rs)]


(***************************************************************************)
(* Init: no call yet.  The destination directory is missing, cannot be     *)
(* created, or exists and holds some earlier files.                        *)
(***************************************************************************)
OldFile == [size |-> 1, ino |-> 0]
path_f == JoinPath(output_dir, <<"f", ".", "b">>)
path_f_1 == JoinPath(output_dir, <<"f", "_", "1", ".", "b">>)
InitialFiles == {path_f, path_f_1}
NoTasks == <<>>

Init ==
    /\ phase = "idle"
    /\ tool = "none"
    /\ urls = <<>>
    /\ max_size_mb = 0
    /\ dirState \in {"absent", "present", "blocked"}
    /\ files = [p \in IF dirState = "present" THEN InitialFiles ELSE {} |-> OldFile]
    /\ pc = NoTasks
    /\ filename = NoTasks
    /\ file_path = NoTasks
    /\ downloaded = NoTasks
    /\ fd = NoTasks
    /\ ret = NoTasks
    /\ response = <<>>
    /\ raised = FALSE
    /\ fetches = 0
    /\ obs = NoTasks
    /\ at_start = [dir |-> dirState, files |-> files]
    /\ log = <<>>
    /\ initial_files = DOMAIN files

(***************************************************************************)
(* A tool is called: one fetch per URL is created (server.py:237, 265-267).*)
(* The call before is over; a successful single download goes to the log.  *)
(***************************************************************************)
Logged ==
    IF tool = "download_single_file" /\ ret # <<>> /\ ret[1] # <<>> /\ ret[1][1].success
    THEN <<[name |-> filename[1], file_path |-> ret[1][1].file_path]>>
    ELSE <<>>

StartCall(t, us, names, mb) ==
    /\ phase \in {"idle", "returned"}
    /\ fetches + Len(us) <= MaxFetches
    /\ phase' = "running"
    /\ tool' = t
    /\ urls' = us
    /\ max_size_mb' = mb
    /\ pc' = [i \in 1..Len(us) |-> "init"]
    /\ filename' = names
    /\ file_path' = [i \in 1..Len(us) |-> <<>>]
    /\ downloaded' = [i \in 1..Len(us) |-> 0]
    /\ fd' = [i \in 1..Len(us) |-> Closed]
    /\ ret' = [i \in 1..Len(us) |-> <<>>]
    /\ response' = <<>>
    /\ raised' = FALSE
    /\ fetches' = fetches + Len(us)
    /\ obs' = [i \in 1..Len(us) |-> NoObs]
    /\ files' = Settled(files)
    /\ at_start' = [dir |-> dirState, files |-> Settled(files)]
    /\ log' = log \o Logged
    /\ UNCHANGED <<dirState, initial_files>>

\* download_single_file(url, output_dir, filename, timeout, max_size_mb)
download_single_file ==
    \E url \in URLS, name \in FILENAMES, mb \in 1..MaxSizeMb :
        StartCall("download_single_file", <<url>>, <<name>>, mb)

\* download_files(urls, output_dir, timeout, max_size_mb): filename is None for each
UrlLists == UNION {[1..n -> URLS] : n \in 0..MaxBatch}
download_files ==
    \E us \in UrlLists, mb \in 1..MaxSizeMb :
        StartCall("download_files", us, [i \in 1..Len(us) |-> <<>>], mb)

(***************************************************************************)
(* _download_single_file_internal (server.py:112-209), one action per      *)
(* stretch of code between two awaits.                                     *)
(***************************************************************************)
\* server.py:127-130: the name of each URL and of each filename argument of the
\* world, as the Name Resolver gives it
ExtractedName == [url \in URLS |-> _extract_filename_from_url(url)]
SanitizedName == [name \in FILENAMES |-> _sanitize_filename(name)]

\* The event loop runs the first step of the tasks gather created in their order,
\* and completes no network operation before each task has run its first step.
Started == \A j \in Tasks : pc[j] # "init"

\* server.py:120-151: validate, mkdir, resolve the name and the path, send the probe
Begin(i) ==
    /\ i \in Tasks
    /\ pc[i] = "init"
    /\ \A j \in 1..(i - 1) : pc[j] # "init"
    /\ IF ~ValidUrl(urls[i])
       THEN /\ Raise(i, "ValueError", MsgInvalidUrl,
                     [obs[i] EXCEPT !.fault = "validation"], files)
            /\ UNCHANGED <<dirState, filename, file_path>>
       ELSE IF dirState = "blocked"
       THEN /\ Raise(i, "OSError", MsgMkdir, [obs[i] EXCEPT !.fault = "mkdir"], files)
            /\ UNCHANGED <<dirState, filename, file_path>>
       ELSE LET name == IF filename[i] = <<>>
                        THEN ExtractedName[urls[i]]
                        ELSE SanitizedName[filename[i]]
            IN  /\ dirState' = "present"
                /\ filename' = [filename EXCEPT ![i] = name]
                /\ file_path' = [file_path EXCEPT ![i] =
                       _get_unique_filepath(JoinPath(output_dir, name), DOMAIN files)]
                /\ pc' = [pc EXCEPT ![i] = "probing"]
                /\ obs' = [obs EXCEPT ![i].probes = @ + 1]
                /\ UNCHANGED <<files, ret, fd>>
    /\ UNCHANGED <<phase, tool, urls, max_size_mb, downloaded, response, raised,
                   fetches, at_start, log, initial_files>>

\* the GET request goes out (server.py:164)
SendGet(i, over) ==
    /\ pc' = [pc EXCEPT ![i] = "requesting"]
    /\ obs' = [obs EXCEPT ![i].gets = @ + 1, ![i].over_length = over]
    /\ UNCHANGED <<files, ret, fd>>

\* server.py:151-164: the probe answers; its Content-Length is checked
ProbeResponse(i, content_length) ==
    /\ i \in Tasks
    /\ pc[i] = "probing"
    /\ Started
    /\ LET check == ProbeCheck(content_length, max_size_bytes)
       IN  IF check.exc = "none" \/ except_HTTPStatusError(check.exc)
           THEN SendGet(i, OverLength(content_length, max_size_bytes))
           ELSE Raise(i, check.exc, check.message,
                      [obs[i] EXCEPT !.fault = check.fault,
                                     !.over_length =
                                         OverLength(content_length, max_size_bytes)],
                      files)
    /\ UNCHANGED <<phase, tool, urls, max_size_mb, dirState, filename, file_path,
                   downloaded, response, raised, fetches, at_start, log, initial_files>>

\* server.py:151, 161-162: the probe fails in transport (connection, timeout)
ProbeError(i, message) ==
    /\ i \in Tasks
    /\ pc[i] = "probing"
    /\ Started
    /\ IF except_HTTPStatusError("TransportError")
       THEN SendGet(i, <<>>)
       ELSE Raise(i, "TransportError", message,
                  [obs[i] EXCEPT !.fault = "probe_transport"], files)
    /\ UNCHANGED <<phase, tool, urls, max_size_mb, dirState, filename, file_path,
                   downloaded, response, raised, fetches, at_start, log, initial_files>>

\* server.py:164-171: the body response arrives; its status is checked and the
\* destination file opened
GetResponse(i, status, open_ok) ==
    /\ i \in Tasks
    /\ pc[i] = "requesting"
    /\ Started
    /\ IF raise_for_status(status)
       THEN Raise(i, "HTTPStatusError", MsgStatus,
                  [obs[i] EXCEPT !.status = status, !.fault = "status"], files)
       ELSE IF ~open_ok
       THEN Raise(i, "OSError", MsgOpen,
                  [obs[i] EXCEPT !.status = status, !.fault = "open"], files)
       ELSE /\ files' = OpenWb(files, file_path[i], i)
            /\ fd' = [fd EXCEPT ![i] =
                   [ino |-> OpenWb(files, file_path[i], i)[file_path[i]].ino,
                    buffered |-> 0]]
            /\ pc' = [pc EXCEPT ![i] = "streaming"]
            /\ obs' = [obs EXCEPT ![i].status = status, ![i].opened = TRUE]
            /\ UNCHANGED ret
    /\ UNCHANGED <<phase, tool, urls, max_size_mb, dirState, filename, file_path,
                   downloaded, response, raised, fetches, at_start, log, initial_files>>

\* server.py:164: the body request fails in transport
GetError(i, message) ==
    /\ i \in Tasks
    /\ pc[i] = "requesting"
    /\ Started
    /\ Raise(i, "TransportError", message, [obs[i] EXCEPT !.fault = "get_transport"], files)
    /\ UNCHANGED <<phase, tool, urls, max_size_mb, dirState, filename, file_path,
                   downloaded, response, raised, fetches, at_start, log, initial_files>>

\* response.aiter_bytes(chunk_size=8192) (server.py:171): the length of the next
\* chunk, chunk_size bytes or, at the end of the body, the bytes that are left
NextChunk(url, done) ==
    IF Body(url) - done < chunk_size THEN Body(url) - done ELSE chunk_size

\* server.py:171-182: a chunk arrives.  f.write either keeps the chunk in the
\* buffer of f, or writes the buffer out, or fails writing it out.
Chunk(i, how) ==
    /\ i \in Tasks
    /\ pc[i] = "streaming"
    /\ downloaded[i] < Body(urls[i])
    /\ downloaded' = [downloaded EXCEPT ![i] = @ + NextChunk(urls[i], @)]
    /\ IF ExceedsInStream(downloaded[i] + NextChunk(urls[i], downloaded[i]), max_size_bytes)
       THEN Raise(i, "ValueError", MsgStreamSize, [obs[i] EXCEPT !.fault = "stream_size"],
                  IF exists(files, file_path[i]) THEN unlink(files, file_path[i]) ELSE files)
       ELSE IF how = "fail"
       THEN Raise(i, "OSError", MsgWrite, [obs[i] EXCEPT !.fault = "write"], files)
       ELSE /\ files' = IF how = "flush"
                        THEN Write(files, file_path[i], fd[i].ino,
                                   downloaded[i] - fd[i].buffered,
                                   fd[i].buffered + NextChunk(urls[i], downloaded[i]))
                        ELSE files
            /\ fd' = [fd EXCEPT ![i].buffered = IF how = "flush" THEN 0
                                                 ELSE @ + NextChunk(urls[i], downloaded[i])]
            /\ UNCHANGED <<pc, ret, obs>>
    /\ UNCHANGED <<phase, tool, urls, max_size_mb, dirState, filename, file_path,
                   response, raised, fetches, at_start, log, initial_files>>

\* server.py:171: reading the body fails in transport; leaving the with block
\* closes f
StreamError(i, message) ==
    /\ i \in Tasks
    /\ pc[i] = "streaming"
    /\ Raise(i, "TransportError", message, [obs[i] EXCEPT !.fault = "read_transport"],
             Flush(files, i))
    /\ UNCHANGED <<phase, tool, urls, max_size_mb, dirState, filename, file_path,
                   downloaded, response, raised, fetches, at_start, log, initial_files>>

\* server.py:171, 184-196: the body ends; f is closed (which writes its buffer
\* out, or fails to), the file is checked and measured
EndOfStream(i, close_ok) ==
    /\ i \in Tasks
    /\ pc[i] = "streaming"
    /\ downloaded[i] = Body(urls[i])
    /\ close_ok \/ fd[i].buffered > 0
    /\ IF ~close_ok
       THEN Raise(i, "OSError", MsgWrite, [obs[i] EXCEPT !.fault = "write"], files)
       ELSE IF ~exists(Flush(files, i), file_path[i])
       THEN Raise(i, "ValueError", MsgNotCreated, obs[i], Flush(files, i))
       ELSE /\ files' = Flush(files, i)
            /\ ret' = [ret EXCEPT ![i] =
                   <<SuccessResult(file_path[i], BaseName(file_path[i]),
                                   st_size(Flush(files, i), file_path[i]),
                                   ContentTypeHeader(urls[i]))>>]
            /\ pc' = [pc EXCEPT ![i] = "completed"]
            /\ fd' = [fd EXCEPT ![i] = Closed]
            /\ UNCHANGED obs
    /\ UNCHANGED <<phase, tool, urls, max_size_mb, dirState, filename, file_path,
                   downloaded, response, raised, fetches, at_start, log, initial_files>>

\* server.py:237 and 268-273: the tool call returns (or the exception of a task
\* leaves it)
Return ==
    /\ phase = "running"
    /\ gather_done
    /\ phase' = "returned"
    /\ raised' = (\E i \in Tasks : pc[i] = "raised")
    /\ response' = IF \E i \in Tasks : pc[i] = "raised" THEN <<>>
                   ELSE IF tool = "download_single_file" THEN <<results[1]>>
                   ELSE <<DownloadResponse(results)>>
    /\ UNCHANGED <<tool, urls, max_size_mb, dirState, files, pc, filename, file_path,
                   downloaded, fd, ret, fetches, obs, at_start, log, initial_files>>

Next ==
    \/ download_single_file
    \/ download_files
    \/ \E i \in 1..MaxFetches : Begin(i)
    \/ \E i \in 1..MaxFetches, cl \in ContentLengths : ProbeResponse(i, cl)
    \/ \E i \in 1..MaxFetches, m \in TransportErrors : ProbeError(i, m)
    \/ \E i \in 1..MaxFetches, st \in Statuses, ok \in BOOLEAN : GetResponse(i, st, ok)
    \/ \E i \in 1..MaxFetches, m \in TransportErrors : GetError(i, m)
    \/ \E i \in 1..MaxFetches, how \in {"buffer", "flush", "fail"} : Chunk(i, how)
    \/ \E i \in 1..MaxFetches, m \in TransportErrors : StreamError(i, m)
    \/ \E i \in 1..MaxFetches, ok \in BOOLEAN : EndOfStream(i, ok)
    \/ Return

Spec == Init /\ [][Next]_vars

(***************************************************************************)
(* The scheduling of a call.  A step of fetch i is the code run when the   *)
(* event loop resumes its coroutine: at first, and then each time the      *)
(* network operation it awaits (server.py:151, 164, 171) has yielded data, *)
(* the end of the stream, an error or a timeout.  The event loop resumes   *)
(* every coroutine whose operation has yielded, and the tool once gather   *)
(* is done.  Whether and when a caller calls a tool is left open.          *)
(***************************************************************************)
Progress(i) ==
    \/ Begin(i)
    \/ \E cl \in ContentLengths : ProbeResponse(i, cl)
    \/ \E m \in TransportErrors : ProbeError(i, m)
    \/ \E st \in Statuses, ok \in BOOLEAN : GetResponse(i, st, ok)
    \/ \E m \in TransportErrors : GetError(i, m)
    \/ \E how \in {"buffer", "flush", "fail"} : Chunk(i, how)
    \/ \E m \in TransportErrors : StreamError(i, m)
    \/ \E ok \in BOOLEAN : EndOfStream(i, ok)

Fairness ==
    /\ \A i \in 1..MaxFetches : WF_vars(Progress(i))
    /\ WF_vars(Return)

LiveSpec == Init /\ [][Next]_vars /\ Fairness


(***************************************************************************)
(* The Name Resolver on its own: _sanitize_filename applied to a string    *)
(* (server.py:130, filename = _sanitize_filename(filename)).  The inputs   *)
(* are the short strings over an alphabet that holds a letter, the         *)
(* stripped characters, two illegal characters, a control character below  *)
(* 0x20 ("\t") and the control character DEL (0x7f), and some names longer *)
(* than 255 characters.                                                    *)
(***************************************************************************)
\* the character U+007F
DEL == "\\x7f"
NameAlphabet == {"a", ".", " ", "/", "*", "\t", DEL}
ShortNames == UNION {[1..n -> NameAlphabet] : n \in 0..MaxInputLen}

Repeat(c, n) == [i \in 1..n |-> c]
LongNames ==
    { Repeat("a", MaxNameLen + 1),
      Repeat("a", MaxNameLen) \o <<".", "b">>,
      <<"/">> \o Repeat("a", MaxNameLen - 2) \o <<".", "b", "*">>,
      <<"a", ".">> \o Repeat("b", MaxNameLen + 1),
      Repeat(" ", MaxNameLen) \o <<"a">> }
NAMES == ShortNames \cup LongNames

NameInit ==
    /\ phase = "idle"
    /\ tool = "_sanitize_filename"
    /\ urls = <<>>
    /\ max_size_mb = 0
    /\ dirState = "absent"
    /\ files = <<>>
    /\ pc = <<"init">>
    /\ filename \in {<<name>> : name \in NAMES}
    /\ file_path = <<<<>>>>
    /\ downloaded = <<0>>
    /\ fd = <<Closed>>
    /\ ret = <<<<>>>>
    /\ response = <<>>
    /\ raised = FALSE
    /\ fetches = 0
    /\ obs = <<NoObs>>
    /\ at_start = [dir |-> dirState, files |-> files]
    /\ log = <<>>
    /\ initial_files = {}

\* server.py:55-67 called: the name it returns
Sanitize ==
    /\ tool = "_sanitize_filename"
    /\ phase = "idle"
    /\ phase' = "returned"
    /\ ret' = [ret EXCEPT ![1] = <<_sanitize_filename(filename[1])>>]
    /\ UNCHANGED <<tool, urls, max_size_mb, dirState, files, pc, filename, file_path,
                   downloaded, fd, response, raised, fetches, obs, at_start, log,
                   initial_files>>

NameNext == Sanitize

NameSpec == NameInit /\ [][NameNext]_vars


(***************************************************************************)
(* The Name Resolver on its own: _extract_filename_from_url applied to a   *)
(* URL (server.py:128), which the fetch does after the URL has passed the  *)
(* scheme test of line 121.  The URLs are a scheme, a host, a path, a      *)
(* query and a fragment, each drawn from a few cases.                      *)
(***************************************************************************)
UrlSchemes == {Http, Https}

\* hosts: a name, and a bracket that opens an IPv6 literal and never closes
UrlHosts ==
    { <<"h">>,
      <<"[">> }

\* paths: none, a file, nested, a trailing slash, escapes, dot segments, params
UrlPaths ==
    { <<>>,
      <<"/">>,
      <<"/", "f", ".", "b">>,
      <<"/", "g">>,
      <<"/", "x", "/">>,
      <<"/", "x", "/", "y", ".", "c">>,
      <<"/", "a", "%", "2", "0", "b">>,
      <<"/", "%", "2", "E", "%", "2", "E">>,
      <<"/", ".", ".">>,
      <<"/", "a", "/", ".">>,
      <<"/", "a", ".">>,
      <<"/", "g", ";", "p">>,
      <<"/", "%", "2", "F", "z">>,
      <<"/", "%", "2", "0">> }

\* queries: none, each key, several keys, a blank value, another key, escapes
UrlQueries ==
    { <<>>,
      <<"?", "f", "i", "l", "e", "=", "q", ".", "c">>,
      <<"?", "n", "a", "m", "e", "=", "n", ".", "d", "&", "f", "i", "l", "e", "n", "a", "m", "e", "=", "m", ".", "d">>,
      <<"?", "f", "i", "l", "e", "=", "&", "n", "a", "m", "e", "=", "z">>,
      <<"?", "x", "=", "1">>,
      <<"?", "f", "i", "l", "e", "n", "a", "m", "e", "=", "a", "%", "2", "F", "b", "+", "c">>,
      <<"?", "n", "a", "m", "e", "=", "n", "&", "f", "i", "l", "e", "=", "a", "/", "q", ".", "c">> }

\* fragments: none, a word, one that looks like a query
UrlFragments ==
    { <<>>,
      <<"#", "r">>,
      <<"#", "?", "f", "i", "l", "e", "=", "z", ".", "z">> }


ResolverUrls ==
    {s \o h \o p \o q \o f :
        s \in UrlSchemes, h \in UrlHosts, p \in UrlPaths, q \in UrlQueries,
        f \in UrlFragments}

UrlInit ==
    /\ phase = "idle"
    /\ tool = "_extract_filename_from_url"
    /\ urls \in {<<url>> : url \in ResolverUrls}
    /\ max_size_mb = 0
    /\ dirState = "absent"
    /\ files = <<>>
    /\ pc = <<"init">>
    /\ filename = <<<<>>>>
    /\ file_path = <<<<>>>>
    /\ downloaded = <<0>>
    /\ fd = <<Closed>>
    /\ ret = <<<<>>>>
    /\ response = <<>>
    /\ raised = FALSE
    /\ fetches = 0
    /\ obs = <<NoObs>>
    /\ at_start = [dir |-> dirState, files |-> files]
    /\ log = <<>>
    /\ initial_files = {}

\* server.py:70-93 called: the name it returns, unless an error leaves it
Extract ==
    /\ tool = "_extract_filename_from_url"
    /\ phase = "idle"
    /\ phase' = "returned"
    /\ IF urlparse_raises(urls[1]) /\ ~extract_except("ValueError")
       THEN raised' = TRUE /\ UNCHANGED ret
       ELSE /\ ret' = [ret EXCEPT ![1] = <<_extract_filename_from_url(urls[1])>>]
            /\ UNCHANGED raised
    /\ UNCHANGED <<tool, urls, max_size_mb, dirState, files, pc, filename, file_path,
                   downloaded, fd, response, fetches, obs, at_start, log, initial_files>>

UrlNext == Extract

UrlSpec == UrlInit /\ [][UrlNext]_vars


(***************************************************************************)
(* The Name Resolver on its own: the resolution of the destination path    *)
(* (server.py:124-133) for a URL and a filename argument, into a directory *)
(* that is empty or already holds a file of the name chosen.  A filename   *)
(* is either absent, and the URL is any of ResolverUrls, or one of NAMES.  *)
(***************************************************************************)
\* server.py:127-130
ChosenName(url, name) ==
    IF name = <<>> THEN _extract_filename_from_url(url) ELSE _sanitize_filename(name)

ResolveInit ==
    /\ phase = "idle"
    /\ tool = "resolve_path"
    /\ \E url \in ResolverUrls, name \in NAMES :
          /\ name # <<>> => url = UrlA
          /\ urls = <<url>>
          /\ filename = <<name>>
    /\ max_size_mb = 0
    /\ dirState \in {"absent", "present"}
    /\ files \in IF dirState = "absent" THEN {<<>>}
                 ELSE {<<>>,
                       [p \in {JoinPath(output_dir, ChosenName(urls[1], filename[1]))}
                           |-> OldFile]}
    /\ pc = <<"init">>
    /\ file_path = <<<<>>>>
    /\ downloaded = <<0>>
    /\ fd = <<Closed>>
    /\ ret = <<<<>>>>
    /\ response = <<>>
    /\ raised = FALSE
    /\ fetches = 0
    /\ obs = <<NoObs>>
    /\ at_start = [dir |-> dirState, files |-> files]
    /\ log = <<>>
    /\ initial_files = DOMAIN files

\* server.py:124-133: mkdir, the name, the path
ResolvePath ==
    /\ tool = "resolve_path"
    /\ phase = "idle"
    /\ phase' = "returned"
    /\ dirState' = "present"
    /\ filename' = [filename EXCEPT ![1] = ChosenName(urls[1], filename[1])]
    /\ file_path' = [file_path EXCEPT ![1] =
           _get_unique_filepath(JoinPath(output_dir, ChosenName(urls[1], filename[1])),
                                DOMAIN files)]
    /\ UNCHANGED <<tool, urls, max_size_mb, files, pc, downloaded, fd, ret, response,
                   raised, fetches, obs, at_start, log, initial_files>>

ResolveNext == ResolvePath

ResolveSpec == ResolveInit /\ [][ResolveNext]_vars


(***************************************************************************)
(* Vocabulary of the properties.                                           *)
(***************************************************************************)
Single == tool = "download_single_file"
Batch == tool = "download_files"
Returned == phase = "returned"
N == Len(urls)

\* the scheme test of the specification, stated apart from the code's ValidUrl
IsHttpUrl(url) == startswith(url, Http) \/ startswith(url, Https)

\* the faults a fetch can meet, by kind
TransportFaults == {"probe_transport", "get_transport", "status", "read_transport"}
FilesystemFaults == {"mkdir", "open", "write"}
SizeFaults == {"probe_size", "stream_size"}

\* the message(s) that report each fault
FaultMessages(f) ==
    CASE f = "validation" -> {MsgInvalidUrl}
      [] f = "mkdir" -> {MsgMkdir}
      [] f \in {"probe_transport", "get_transport", "read_transport"} -> TransportErrors
      [] f = "probe_size" -> {MsgProbeSize}
      [] f = "probe_parse" -> {MsgBadInt}
      [] f = "status" -> {MsgStatus}
      [] f = "open" -> {MsgOpen}
      [] f = "stream_size" -> {MsgStreamSize}
      [] f = "write" -> {MsgWrite}
      [] OTHER -> {}

\* the two shapes of a DownloadResult
SuccessShape(r) == r.success /\ r.file_path # <<>> /\ r.error = <<>>
FailureShape(r) == ~r.success /\ r.file_path = <<>> /\ r.file_size = 0 /\ r.error # <<>>

(***************************************************************************)
(* C1.  download_single_file never lets a failure escape: whatever fault   *)
(* the fetch meets (invalid URL, directory not creatable, transport error  *)
(* or timeout of the probe or the body, non-2xx status, size exceeded,     *)
(* file open or write error), the call does not raise; it returns a        *)
(* DownloadResult with success = false whose error is the fault's message. *)
(***************************************************************************)
C1_NoFailureEscapes ==
    Single =>
        /\ ~raised
        /\ \A i \in Tasks :
              /\ pc[i] # "raised"
              /\ (pc[i] \in Terminal /\ obs[i].fault # "none") =>
                    /\ pc[i] = "aborted"
                    /\ ret[i] # <<>>
                    /\ ~ret[i][1].success
                    /\ ret[i][1].error # <<>>
                    /\ ret[i][1].error[1] \in FaultMessages(obs[i].fault)
        /\ Returned => response = ret[1] /\ response # <<>>

\* a download_single_file call has returned after a write error
C1_Witness ==
    /\ Single /\ Returned
    /\ obs[1].fault = "write"
    /\ ~response[1].success

(***************************************************************************)
(* C2.  Every DownloadResult, returned by a fetch or held in a response,   *)
(* has one of two shapes: success with a non-empty path and no error, or   *)
(* failure with an empty path, size 0 and an error set.  The size of a     *)
(* successful single download is the number of bytes it wrote.             *)
(***************************************************************************)
C2_TwoShapes ==
    /\ \A i \in Tasks :
          ret[i] # <<>> =>
              /\ SuccessShape(ret[i][1]) \/ FailureShape(ret[i][1])
              /\ ~(SuccessShape(ret[i][1]) /\ FailureShape(ret[i][1]))
              /\ (Single /\ ret[i][1].success) => ret[i][1].file_size = downloaded[i]
    /\ (Returned /\ Single /\ response # <<>>) =>
          SuccessShape(response[1]) \/ FailureShape(response[1])
    /\ (Returned /\ Batch /\ response # <<>>) =>
          \A k \in 1..Len(response[1].results) :
              SuccessShape(response[1].results[k]) \/ FailureShape(response[1].results[k])

\* a batch has returned one result of each shape
C2_Witness ==
    /\ Batch /\ Returned /\ N = 2
    /\ response[1].results[1].success
    /\ ~response[1].results[2].success
    /\ response[1].results[2].file_name # <<>>

(***************************************************************************)
(* C3.  download_files on N URLs returns a response with N results,        *)
(* results[i] being what the fetch of urls[i] returned, success_count the  *)
(* number of results with success = true and success_count + failed_count  *)
(* = N.                                                                    *)
(***************************************************************************)
C3_BatchCounts ==
    (Batch /\ Returned) =>
        /\ response # <<>>
        /\ Len(response[1].results) = N
        /\ \A i \in Tasks : ret[i] # <<>> /\ response[1].results[i] = ret[i][1]
        /\ response[1].success_count =
              Cardinality({i \in Tasks : response[1].results[i].success})
        /\ response[1].success_count + response[1].failed_count = N

\* a batch of two has returned a failure first and a success second
C3_Witness ==
    /\ Batch /\ Returned /\ N = 2
    /\ ~response[1].results[1].success
    /\ response[1].results[2].success
    /\ response[1].success_count = 1

(***************************************************************************)
(* C4.  In download_files a failing item does not affect another item:     *)
(* an item that meets no fault of its own, in a batch whose other items    *)
(* all fail, ends as it would alone, with success and its whole body in    *)
(* the file at the path it returned.                                       *)
(***************************************************************************)
C4_FailureIsolation ==
    (Batch /\ Returned) =>
        \A j \in Tasks :
            (/\ obs[j].fault = "none"
             /\ \A k \in Tasks \ {j} : ret[k] # <<>> /\ ~ret[k][1].success)
            => /\ ret[j] # <<>>
               /\ ret[j][1].success
               /\ exists(files, ret[j][1].file_path)
               /\ st_size(files, ret[j][1].file_path) = Body(urls[j])

(***************************************************************************)
(* C5.  A download_single_file call of an http(s) URL whose probe and body *)
(* transfer succeed (the probe passed, the body request was answered with  *)
(* a 2xx status, the file was opened, and neither reading nor writing the  *)
(* body failed) and whose body is within the size cap returns success, a   *)
(* file exists at the returned path, file_name is the basename of the      *)
(* path, and file_size is the number of body bytes, which is the size of   *)
(* the file on disk.                                                       *)
(***************************************************************************)
C5_WithinCapSucceeds ==
    \A i \in Tasks :
        (/\ Single
         /\ pc[i] \in Terminal
         /\ IsHttpUrl(urls[i])
         /\ obs[i].probes = 1 /\ obs[i].gets = 1
         /\ obs[i].status \in 200..299
         /\ obs[i].opened
         /\ obs[i].fault \notin {"read_transport", "write"}
         /\ Body(urls[i]) <= max_size_bytes)
        => /\ ret[i] # <<>>
           /\ ret[i][1].success
           /\ exists(files, ret[i][1].file_path)
           /\ ret[i][1].file_name = BaseName(ret[i][1].file_path)
           /\ ret[i][1].file_size = Body(urls[i])
           /\ st_size(files, ret[i][1].file_path) = Body(urls[i])

\* a single download of a body of exactly the cap has returned success
C5_Witness ==
    /\ Single /\ Returned
    /\ urls[1] = UrlA
    /\ Body(urls[1]) = max_size_bytes
    /\ response[1].success
    /\ response[1].file_size = max_size_bytes

(***************************************************************************)
(* C6.  A download_single_file call of a URL whose body exceeds the cap    *)
(* never succeeds; when the excess is detected, by the Content-Length of   *)
(* the probe or by the running total in the stream, the call returns       *)
(* success = false with a size-exceeded error and no file exists at the    *)
(* resolved path; and the excess is detected unless the fetch meets        *)
(* another fault first.                                                    *)
(***************************************************************************)
C6_OverCapFails ==
    \A i \in Tasks :
        (Single /\ pc[i] \in Terminal) =>
            /\ Body(urls[i]) > max_size_bytes =>
                  /\ ret[i] # <<>>
                  /\ ~ret[i][1].success
                  /\ obs[i].fault # "none"
            /\ obs[i].fault \in SizeFaults =>
                  /\ ret[i] # <<>>
                  /\ ~ret[i][1].success
                  /\ ret[i][1].error \in {<<MsgProbeSize>>, <<MsgStreamSize>>}
                  /\ file_path[i] # <<>>
                  /\ ~exists(files, file_path[i])

\* a single download has been aborted in the stream, after its file was opened
\* and written, for a body over the cap
C6_Witness ==
    /\ Single /\ Returned
    /\ Body(urls[1]) > max_size_bytes
    /\ obs[1].fault = "stream_size"
    /\ obs[1].opened
    /\ downloaded[1] > max_size_bytes
    /\ response[1].error = <<MsgStreamSize>>

(***************************************************************************)
(* C7.  After n successful download_single_file calls, and no other call,  *)
(* of URLs with the same derived name into a directory that was empty or   *)
(* missing at first, the first returned path is the derived name in the    *)
(* directory, the k-th later one has _k inserted before the extension, the *)
(* n paths are pairwise distinct and the n files exist.                    *)
(***************************************************************************)
History == log \o Logged

C7_SequentialCollisions ==
    (/\ Returned
     /\ initial_files = {}
     /\ fetches = Len(History)
     /\ \A k \in 1..Len(History) : History[k].name = History[1].name)
    => \A k \in 1..Len(History) :
          /\ History[k].file_path =
                IF k = 1 THEN JoinPath(output_dir, History[1].name)
                ELSE JoinPath(output_dir, stem(History[1].name) \o <<"_">> \o str(k - 1)
                                          \o suffix(History[1].name))
          /\ exists(files, History[k].file_path)
          /\ \A m \in 1..Len(History) :
                m # k => History[m].file_path # History[k].file_path

\* the second of two successful downloads of the name f.b got f_1.b
C7_Witness ==
    /\ Returned
    /\ initial_files = {}
    /\ fetches = 2 /\ Len(History) = 2
    /\ History[1].name = History[2].name
    /\ History[1].file_path = path_f
    /\ History[2].file_path = path_f_1
    /\ exists(files, path_f) /\ exists(files, path_f_1)

(***************************************************************************)
(* C8.  A fetch of a URL that starts with neither http:// nor https://     *)
(* fails at once with the validation error: it sends no probe and no body  *)
(* request, resolves no path and opens no file; and a call all of whose    *)
(* URLs are such leaves the destination directory and the files as they    *)
(* were when the call started.                                             *)
(***************************************************************************)
C8_InvalidUrlFailsFast ==
    /\ \A i \in Tasks :
          (pc[i] # "init" /\ ~IsHttpUrl(urls[i])) =>
              /\ pc[i] = "aborted"
              /\ obs[i].probes = 0
              /\ obs[i].gets = 0
              /\ ~obs[i].opened
              /\ file_path[i] = <<>>
              /\ ret[i] # <<>>
              /\ ~ret[i][1].success
              /\ ret[i][1].error = <<MsgInvalidUrl>>
    /\ (N >= 1 /\ \A i \in Tasks : ~IsHttpUrl(urls[i])) =>
          /\ dirState = at_start.dir
          /\ files = at_start.files

\* a single download of an ftp URL has returned its failure, and the missing
\* directory is still missing
C8_Witness ==
    /\ Single /\ Returned
    /\ urls[1] = UrlFtp
    /\ ~response[1].success
    /\ at_start.dir = "absent"
    /\ dirState = "absent"

(***************************************************************************)
(* C9.  When download_files has returned, every fetch of the batch is      *)
(* Completed or Aborted and has closed its file: none is still reading     *)
(* from the network, writing or deleting.                                  *)
(***************************************************************************)
C9_ReturnsAfterAllTasks ==
    (Batch /\ Returned) =>
        \A i \in Tasks :
            /\ pc[i] \in {"completed", "aborted"}
            /\ fd[i] = Closed
            /\ ret[i] # <<>>

\* a batch of two has returned with one fetch completed and the other, which
\* ended first in the stream, aborted
C9_Witness ==
    /\ Batch /\ Returned /\ N = 2
    /\ pc[1] = "aborted" /\ obs[1].fault = "read_transport"
    /\ pc[2] = "completed"

(***************************************************************************)
(* C10.  In a batch of at least two URLs where exactly one body request is *)
(* answered with a non-2xx status and every other item succeeds, the item  *)
(* of that request has success = false, a non-empty error string and no    *)
(* file opened for it, and the counts are success_count = N - 1 and        *)
(* failed_count = 1.                                                       *)
(***************************************************************************)
C10_OneNotFound ==
    (Batch /\ Returned /\ N >= 2) =>
        \A i \in Tasks :
            (/\ obs[i].status \notin 200..299 /\ obs[i].gets = 1 /\ obs[i].status # 0
             /\ \A k \in Tasks \ {i} : ret[k] # <<>> /\ ret[k][1].success)
            => /\ response # <<>>
               /\ ~response[1].results[i].success
               /\ response[1].results[i].error # <<>>
               /\ response[1].results[i].error # <<"">>
               /\ ~obs[i].opened
               /\ response[1].success_count = N - 1
               /\ response[1].failed_count = 1

\* a batch of two has returned after the second body request was answered 404
C10_Witness ==
    /\ Batch /\ Returned /\ N = 2
    /\ obs[2].status = 404
    /\ response[1].results[1].success
    /\ ~response[1].results[2].success
    /\ response[1].failed_count = 1

(***************************************************************************)
(* C11.  When a request or a read of one fetch of a batch times out (a     *)
(* transport error, whose message is empty for a timeout), that fetch      *)
(* alone is aborted: its result has success = false and error set, the     *)
(* call does not raise, and every sibling reaches Completed or Aborted on  *)
(* its own account; a sibling without a fault of its own completes, unless *)
(* a task aborted for size has unlinked its file.                          *)
(***************************************************************************)
TimeoutFaults == {"probe_transport", "get_transport", "read_transport"}

C11_TimeoutNotPropagated ==
    (Batch /\ Returned) =>
        \A i \in Tasks :
            obs[i].fault \in TimeoutFaults =>
                /\ ~raised
                /\ response # <<>>
                /\ pc[i] = "aborted"
                /\ ~response[1].results[i].success
                /\ response[1].results[i].error # <<>>
                /\ response[1].results[i].error[1] \in TransportErrors
                /\ \A k \in Tasks \ {i} :
                      /\ pc[k] \in {"completed", "aborted"}
                      /\ response[1].results[k] = ret[k][1]
                      /\ (/\ obs[k].fault = "none"
                          /\ \A m \in Tasks : obs[m].fault # "stream_size")
                         => pc[k] = "completed" /\ ret[k][1].success

\* a batch of two has returned: the first fetch timed out reading its body (the
\* error message of a timeout is empty), the second one completed
C11_Witness ==
    /\ Batch /\ Returned /\ N = 2
    /\ obs[1].fault = "read_transport"
    /\ response[1].results[1].error = <<"">>
    /\ obs[2].fault = "none"
    /\ response[1].results[2].success

(***************************************************************************)
(* C12.  Within one download_files call any two tasks that open a file     *)
(* have different destination paths, also when their URLs derive the same  *)
(* filename.                                                               *)
(***************************************************************************)
C12_DistinctPaths ==
    Batch =>
        \A i \in Tasks : \A j \in Tasks :
            (i # j /\ obs[i].opened /\ obs[j].opened) => file_path[i] # file_path[j]

(***************************************************************************)
(* C13.  For every input string, _sanitize_filename returns a non-empty    *)
(* string with none of the characters < > : " / \ | ? * and no control     *)
(* character below 0x20, and returns the placeholder downloaded_file when  *)
(* the input holds nothing but dots and spaces.  (The control character    *)
(* DEL, 0x7f, is not replaced.)                                            *)
(***************************************************************************)
Sanitized == tool = "_sanitize_filename" /\ phase = "returned"
ListedIllegal == {"<", ">", ":", "\"", "/", "\\", "|", "?", "*"}
ControlsBelow32 == {"\t"}
ControlCharacters == ControlsBelow32 \cup {DEL}

C13_SanitizedName ==
    Sanitized =>
        /\ ret[1][1] # <<>>
        /\ \A k \in 1..Len(ret[1][1]) :
              ret[1][1][k] \notin ListedIllegal \cup ControlsBelow32
        /\ (\A k \in 1..Len(filename[1]) : filename[1][k] \in {".", " "})
              => ret[1][1] = downloaded_file

\* the name a/* has been sanitized to a__
C13_Witness ==
    /\ Sanitized
    /\ filename[1] = <<"a", "/", "*">>
    /\ ret[1][1] = <<"a", "_", "_">>

\* C13 as stated: the name returned is non-empty, holds none of the listed
\* characters and no control character at all, and is the placeholder when
\* nothing else remains
C13_Original ==
    Sanitized =>
        /\ ret[1][1] # <<>>
        /\ \A k \in 1..Len(ret[1][1]) :
              ret[1][1][k] \notin ListedIllegal \cup ControlCharacters
        /\ (\A k \in 1..Len(filename[1]) : filename[1][k] \in {".", " "})
              => ret[1][1] = downloaded_file

(***************************************************************************)
(* C14.  download_files called with no URL returns, without raising, the   *)
(* response with an empty results list and both counts 0; the call starts  *)
(* no fetch, so it sends no request, and it leaves the destination         *)
(* directory and the files as they were.                                   *)
(***************************************************************************)
C14_EmptyBatch ==
    (Batch /\ N = 0) =>
        /\ Tasks = {}
        /\ dirState = at_start.dir
        /\ files = at_start.files
        /\ Returned =>
              /\ ~raised
              /\ response = <<[results |-> <<>>, success_count |-> 0, failed_count |-> 0]>>

\* a download_files call with no URL has returned, the directory still missing
C14_Witness ==
    /\ Batch /\ N = 0 /\ Returned
    /\ response # <<>>
    /\ response[1].results = <<>>
    /\ dirState = "absent"

(***************************************************************************)
(* C15.  Each fetch goes Init -> Probing -> Streaming (the body request,   *)
(* then the stream) -> Completed or Aborted, Aborted being reachable from  *)
(* every stage: the body request is issued only by the step that ends the  *)
(* probe, the file is opened only by the step that accepts a 2xx status of *)
(* the body response, and a fetch that is Completed or Aborted stays so    *)
(* and sends nothing, opens nothing and writes nothing any more.           *)
(***************************************************************************)
NewCall == phase # "running" /\ phase' = "running"

FetchStep(i) ==
    /\ pc[i] = "init" => pc'[i] \in {"init", "probing", "aborted"}
    /\ pc[i] = "probing" => pc'[i] \in {"probing", "requesting", "aborted"}
    /\ pc[i] = "requesting" => pc'[i] \in {"requesting", "streaming", "aborted"}
    /\ pc[i] = "streaming" => pc'[i] \in {"streaming", "completed", "aborted"}
    /\ pc[i] \in {"completed", "aborted"} =>
          /\ pc'[i] = pc[i]
          /\ obs'[i] = obs[i]
          /\ ret'[i] = ret[i]
          /\ downloaded'[i] = downloaded[i]
          /\ fd[i] = Closed /\ fd'[i] = Closed
    /\ obs'[i].gets # obs[i].gets =>
          /\ pc[i] = "probing" /\ obs[i].probes = 1
          /\ obs[i].gets = 0 /\ obs'[i].gets = 1
    /\ obs'[i].opened # obs[i].opened =>
          /\ pc[i] = "requesting" /\ obs[i].gets = 1
          /\ obs'[i].opened /\ obs'[i].status \in 200..299
    /\ pc'[i] \notin {"init", "probing", "requesting", "streaming"} =>
          /\ pc'[i] \in {"completed", "aborted"}
          /\ ret'[i] # <<>>
          /\ ret'[i][1].success <=> pc'[i] = "completed"

C15_StateMachine == [][NewCall \/ \A i \in Tasks : FetchStep(i)]_vars

\* a fetch has completed after one probe, one body request answered 200 and
\* the opening of its file
C15_Witness ==
    /\ Single
    /\ pc[1] = "completed"
    /\ obs[1] = [probes |-> 1, gets |-> 1, status |-> 200, opened |-> TRUE,
                 fault |-> "none", over_length |-> <<>>]
    /\ downloaded[1] = Body(urls[1]) /\ downloaded[1] > 0

(***************************************************************************)
(* C16.  If the probe reports a Content-Length greater than max_size_mb    *)
(* MB, the fetch fails at once with the size-exceeded error of the probe:  *)
(* it issues no body request, opens no file, and (in a single download)    *)
(* no file exists at its path.                                             *)
(***************************************************************************)
C16_ProbeOverCap ==
    \A i \in Tasks :
        obs[i].over_length # <<>> =>
            /\ obs[i].over_length[1] > max_size_mb * BytesPerMB
            /\ pc[i] = "aborted"
            /\ obs[i].fault = "probe_size"
            /\ obs[i].gets = 0
            /\ ~obs[i].opened
            /\ downloaded[i] = 0
            /\ ret[i] # <<>>
            /\ ~ret[i][1].success
            /\ ret[i][1].error = <<MsgProbeSize>>
            /\ Single => ~exists(files, file_path[i])

\* a single download of a body within the cap has returned the failure of a
\* probe that reported a length over the cap
C16_Witness ==
    /\ Single /\ Returned
    /\ obs[1].over_length = <<max_size_bytes + 1>>
    /\ Body(urls[1]) <= max_size_bytes
    /\ response[1].error = <<MsgProbeSize>>

(***************************************************************************)
(* C17.  The probe is advisory: a fetch whose probe request fails          *)
(* (connection error, timeout) still issues the body request, so that no   *)
(* fetch is aborted by the failure of its probe.                           *)
(***************************************************************************)
C17_ProbeAdvisory ==
    \A i \in Tasks :
        /\ obs[i].fault # "probe_transport"
        /\ (pc[i] \in Terminal /\ obs[i].probes = 1 /\ obs[i].over_length = <<>>
            /\ obs[i].fault # "probe_parse") => obs[i].gets = 1

(***************************************************************************)
(* C18.  Byte budget of the stream: a fetch is aborted for size exactly    *)
(* when its running total is greater than max_size_mb MB, a chunk goes to  *)
(* the file only while the total that includes it is within the budget, so *)
(* that the destination file never holds more than the budget, and a body  *)
(* of exactly the budget completes.                                        *)
(***************************************************************************)
Budget == max_size_mb * BytesPerMB

C18_ByteBudget ==
    \A i \in Tasks :
        /\ obs[i].fault = "stream_size" <=> downloaded[i] > Budget
        /\ pc[i] \in {"streaming", "completed"} => downloaded[i] <= Budget
        /\ fd[i].buffered <= downloaded[i]
        /\ fd[i].buffered <= Budget
        /\ (obs[i].opened /\ exists(files, file_path[i])) =>
              st_size(files, file_path[i]) <= Budget
        /\ (/\ Single /\ pc[i] \in Terminal /\ obs[i].opened
            /\ Body(urls[i]) = Budget
            /\ obs[i].fault \notin {"read_transport", "write"})
           => /\ pc[i] = "completed"
              /\ ret[i][1].success
              /\ ret[i][1].file_size = Budget

\* the file of a fetch whose body is over the budget holds exactly the budget:
\* the chunk that comes next will abort the fetch
C18_Witness ==
    /\ Single
    /\ pc[1] = "streaming"
    /\ Body(urls[1]) > Budget
    /\ downloaded[1] = Budget
    /\ fd[1].buffered = 0
    /\ st_size(files, file_path[1]) = Budget

(***************************************************************************)
(* C19.  After a download_single_file call that failed before it received  *)
(* a body byte (transport error of the probe or of the body request,       *)
(* non-2xx status, or transport error while reading the first chunk), no   *)
(* file, not even an empty one, exists at the resolved path.               *)
(***************************************************************************)
C19_NoFileBeforeFirstByte ==
    \A i \in Tasks :
        (/\ Single
         /\ pc[i] = "aborted"
         /\ \/ obs[i].fault \in {"probe_transport", "get_transport", "status"}
            \/ obs[i].fault = "read_transport" /\ downloaded[i] = 0)
        => (file_path[i] = <<>> \/ ~exists(files, file_path[i]))

(***************************************************************************)
(* C20.  Cleanup on failure: after a download_single_file call that was    *)
(* aborted by a transport failure in the middle of the stream, when some   *)
(* chunks had been received, no file exists at the resolved path.          *)
(***************************************************************************)
C20_CleanupOnFailure ==
    \A i \in Tasks :
        (/\ Single
         /\ pc[i] = "aborted"
         /\ obs[i].fault = "read_transport"
         /\ downloaded[i] > 0)
        => ~exists(files, file_path[i])

(***************************************************************************)
(* C21.  The path a fetch resolves is one at which no file existed when it *)
(* was resolved: the candidate (the directory joined with the name) when   *)
(* that was free, otherwise the candidate with _k before the extension for *)
(* the smallest k >= 1 whose path was free.  (No step of a call changes    *)
(* the files before every fetch of the call has resolved its path, so the  *)
(* files at resolution time are the files at the start of the call.)       *)
(***************************************************************************)
Candidate(i) == JoinPath(output_dir, filename[i])
Suffixed(i, k) ==
    JoinPath(output_dir, stem(filename[i]) \o <<"_">> \o str(k) \o suffix(filename[i]))

C21_UniquePath ==
    \A i \in Tasks :
        file_path[i] # <<>> =>
            /\ ~exists(at_start.files, file_path[i])
            /\ ~exists(at_start.files, Candidate(i)) => file_path[i] = Candidate(i)
            /\ exists(at_start.files, Candidate(i)) =>
                  \E k \in 1..(Cardinality(DOMAIN at_start.files) + 1) :
                      /\ file_path[i] = Suffixed(i, k)
                      /\ \A m \in 1..(k - 1) : exists(at_start.files, Suffixed(i, m))

\* a fetch found f.b and f_1.b taken and resolved f_2.b
C21_Witness ==
    \E i \in Tasks :
        /\ exists(at_start.files, path_f) /\ exists(at_start.files, path_f_1)
        /\ filename[i] = <<"f", ".", "b">>
        /\ file_path[i] = JoinPath(output_dir, <<"f", "_", "2", ".", "b">>)

(***************************************************************************)
(* C22.  For every input string the name _sanitize_filename returns has at *)
(* most 255 characters; when the cleaned input is longer, the name         *)
(* returned ends with the extension of the cleaned input, unchanged,       *)
(* whatever the length of that extension.                                  *)
(***************************************************************************)
Cleaned(name) ==
    IF strip(ReplaceIllegal(name)) = <<>> THEN downloaded_file
    ELSE strip(ReplaceIllegal(name))

EndsWith(s, tail) ==
    /\ Len(s) >= Len(tail)
    /\ SubSeq(s, Len(s) - Len(tail) + 1, Len(s)) = tail

C22_LengthLimit ==
    Sanitized =>
        /\ Len(ret[1][1]) <= MaxNameLen
        /\ Len(Cleaned(filename[1])) > MaxNameLen =>
              EndsWith(ret[1][1], suffix(Cleaned(filename[1])))

(***************************************************************************)
(* C23.  With no filename supplied, the name of a URL that parses comes    *)
(* from the first of these that is not empty: the percent-decoded last     *)
(* segment of the URL path; the value of the query parameter file; that of *)
(* filename; that of name; and from the placeholder downloaded_file when   *)
(* all are empty.  (The name found is then given an extension when it has  *)
(* no dot, and sanitized.)                                                 *)
(***************************************************************************)
Extracted == tool = "_extract_filename_from_url" /\ phase = "returned"

LastSegment(url) == unquote(PathName(UrlPath(url)))
Parameter(url, key) == QueryValue(parse_qs(UrlQuery(url)), key)
KeyFile == <<"f", "i", "l", "e">>
KeyFilename == <<"f", "i", "l", "e", "n", "a", "m", "e">>
KeyName == <<"n", "a", "m", "e">>

C23_DerivationOrder ==
    (Extracted /\ ~urlparse_raises(urls[1])) =>
        LET url == urls[1]
            source ==
                IF LastSegment(url) # <<>> THEN LastSegment(url)
                ELSE IF Parameter(url, KeyFile) # <<>> THEN Parameter(url, KeyFile)
                ELSE IF Parameter(url, KeyFilename) # <<>> THEN Parameter(url, KeyFilename)
                ELSE IF Parameter(url, KeyName) # <<>> THEN Parameter(url, KeyName)
                ELSE downloaded_file
        IN  ret[1][1] = FinishName(source)

\* a URL without a path whose query gives name first and filename second was
\* named after filename
C23_Witness ==
    /\ Extracted
    /\ LastSegment(urls[1]) = <<>>
    /\ Parameter(urls[1], KeyFile) = <<>>
    /\ Parameter(urls[1], KeyName) = <<"n", ".", "d">>
    /\ Parameter(urls[1], KeyFilename) = <<"m", ".", "d">>
    /\ ret[1][1] = <<"m", ".", "d">>

(***************************************************************************)
(* C24.  For every URL the name _extract_filename_from_url returns has a   *)
(* non-empty extension: a name derived without one got .bin appended.      *)
(***************************************************************************)
C24_HasExtension ==
    Extracted => suffix(ret[1][1]) # <<>>

(***************************************************************************)
(* C25.  Name derivation never raises: for every URL, those that urlparse  *)
(* rejects included, _extract_filename_from_url returns a non-empty name,  *)
(* and the name is downloaded_file.bin when the derivation met an error.   *)
(***************************************************************************)
C25_ResolverNeverRaises ==
    (tool = "_extract_filename_from_url" /\ phase = "returned") =>
        /\ ~raised
        /\ ret[1] # <<>>
        /\ ret[1][1] # <<>>
        /\ urlparse_raises(urls[1]) => ret[1][1] = downloaded_file \o DotBin

\* a URL whose host is an unclosed bracket and whose path ends in f.b was named
\* downloaded_file.bin
C25_Witness ==
    /\ Extracted
    /\ urlparse_raises(urls[1])
    /\ LastSegment(urls[1]) = <<"f", ".", "b">>
    /\ ret[1][1] = downloaded_file \o DotBin

(***************************************************************************)
(* C26.  There is no retry.  A call has one fetch per URL; a fetch sends   *)
(* at most one probe and at most one body request; a fetch that is Aborted *)
(* stays Aborted, with the result it returned, and sends nothing more; and *)
(* when a batch has returned, its results hold one entry per URL, the      *)
(* entry of a failed fetch being the one result that fetch returned, and   *)
(* failed_count counts each failed fetch once.                             *)
(***************************************************************************)
NoRetryStep(i) ==
    /\ obs'[i].probes <= 1
    /\ obs'[i].gets <= 1
    /\ pc[i] = "aborted" =>
          /\ pc'[i] = "aborted"
          /\ obs'[i].probes = obs[i].probes
          /\ obs'[i].gets = obs[i].gets
          /\ ret'[i] = ret[i]
    /\ pc'[i] = "aborted" => ret'[i] # <<>> /\ ~ret'[i][1].success
    /\ (tool' = "download_files" /\ phase' = "returned") =>
          /\ Len(response'[1].results) = Len(urls)
          /\ pc'[i] = "aborted" => response'[1].results[i] = ret'[i][1]
          /\ response'[1].failed_count =
                Cardinality({k \in Tasks : pc'[k] = "aborted"})

C26_NoRetry ==
    [][NewCall \/ (/\ Len(pc') = Len(urls')
                   /\ \A i \in Tasks : NoRetryStep(i))]_vars

\* a batch of two has returned two failures: the first fetch failed at its one
\* body request, the second at its one probe
C26_Witness ==
    /\ Batch /\ Returned /\ N = 2
    /\ obs[1].fault = "get_transport" /\ obs[1].probes = 1 /\ obs[1].gets = 1
    /\ obs[2].fault = "probe_transport" /\ obs[2].probes = 1 /\ obs[2].gets = 0
    /\ response[1].failed_count = 2

(***************************************************************************)
(* C27.  When download_files has returned, every result with success =     *)
(* true names a path at which a file exists, and the size of that file on  *)
(* disk is the file_size of the result.                                    *)
(***************************************************************************)
C27_SuccessMeansFile ==
    (Batch /\ Returned /\ response # <<>>) =>
        \A k \in 1..Len(response[1].results) :
            response[1].results[k].success =>
                /\ exists(files, response[1].results[k].file_path)
                /\ st_size(files, response[1].results[k].file_path) =
                      response[1].results[k].file_size

(***************************************************************************)
(* C28.  A download_single_file call leaves every file that existed when   *)
(* it started as it was, whatever its outcome: each such file still exists *)
(* with its size, and the only path the call may have added is its own     *)
(* resolved path, which did not exist when the call started.               *)
(***************************************************************************)
C28_OtherFilesUntouched ==
    Single =>
        /\ \A p \in DOMAIN at_start.files :
              /\ exists(files, p)
              /\ st_size(files, p) = st_size(at_start.files, p)
        /\ \A p \in DOMAIN files \ DOMAIN at_start.files :
              /\ p = file_path[1]
              /\ obs[1].opened

\* a single download into a directory that held f.b and f_1.b has returned
\* success at f_2.b, the two old files as they were
C28_Witness ==
    /\ Single /\ Returned
    /\ DOMAIN at_start.files = {path_f, path_f_1}
    /\ response[1].success
    /\ response[1].file_size = BytesPerMB
    /\ exists(files, response[1].file_path)
    /\ response[1].file_path \notin DOMAIN at_start.files
    /\ st_size(files, path_f) = OldFile.size /\ st_size(files, path_f_1) = OldFile.size

(***************************************************************************)
(* C29.  For every URL and every filename argument the resolved path is a  *)
(* direct child of the destination directory: it is the directory, a       *)
(* separator, and a name that holds no separator (/ or \) and is neither   *)
(* "." nor "..".                                                           *)
(***************************************************************************)
Resolved == tool = "resolve_path" /\ phase = "returned"

\* what follows "output_dir/" in the path
ChildName(path) == SubSeq(path, Len(output_dir) + 2, Len(path))

C29_DirectChild ==
    Resolved =>
        /\ startswith(file_path[1], output_dir \o <<"/">>)
        /\ Positions(ChildName(file_path[1]), {"/", "\\"}) = {}
        /\ ChildName(file_path[1]) \notin {<<>>, <<".">>, <<".", ".">>}
        /\ Parent(file_path[1]) = output_dir

\* the URL whose path is /.. (or /%2E%2E), with no filename argument, was
\* resolved to the child downloaded_file of the directory
C29_Witness ==
    /\ Resolved
    /\ LastSegment(urls[1]) = <<".", ".">>
    /\ ~urlparse_raises(urls[1])
    /\ filename[1] = downloaded_file
    /\ file_path[1] = JoinPath(output_dir, downloaded_file)

(***************************************************************************)
(* C30.  Termination.  When every network operation eventually yields and  *)
(* the directory holds finitely many files, every fetch that was started   *)
(* eventually has its path resolved (or has failed before) and eventually  *)
(* is Completed or Aborted, and every download_single_file call and every  *)
(* download_files call eventually returns a response.                      *)
(***************************************************************************)
C30_Termination ==
    /\ \A i \in 1..MaxFetches :
          /\ (i \in Tasks /\ pc[i] = "init") ~> (i \in Tasks /\ pc[i] # "init")
          /\ (i \in Tasks /\ pc[i] \notin {"completed", "aborted"})
                ~> (i \in Tasks /\ pc[i] \in {"completed", "aborted"})
    /\ (Single /\ phase = "running") ~> (Single /\ Returned /\ response # <<>>)
    /\ (Batch /\ phase = "running") ~> (Batch /\ Returned /\ response # <<>>)

\* a batch of two into a directory that held f.b and f_1.b has returned, both
\* fetches completed, the first at f_2.b after the search passed two taken paths
C30_Witness ==
    /\ Batch /\ Returned /\ N = 2
    /\ DOMAIN at_start.files = {path_f, path_f_1}
    /\ pc = <<"completed", "completed">>
    /\ file_path[1] = JoinPath(output_dir, <<"f", "_", "2", ".", "b">>)
    /\ response[1].success_count = 2

=============================================================================
